---------------------------- MODULE Spec2Model ----------------------------
(***************************************************************************)
(* Medical symptoms chatbot: the Conversation Store (MemoryManager), the   *)
(* RAG orchestrator (MedicalRAGChain) and the chatbot's turn handler       *)
(* (MedicalChatbot).                                                       *)
(*                                                                         *)
(* Texts are sequences: a user_id or a query is a sequence of characters,  *)
(* a response is a sequence of text segments.  A storage file is a tagged  *)
(* record telling what open()/json.load() meet when they read it.          *)
(***************************************************************************)
EXTENDS Integers, Sequences, FiniteSets, TLC

\* ------------------------------------------------------------------ bounds
\* Largest configured MAX_CONVERSATION_HISTORY explored (it is read from the
\* environment, config.py:28; the values 0..MaxCap are explored).
MaxCap == 2
\* Number of operations in one behaviour (every operation advances the clock).
MaxOps == 3
\* Largest max_turns passed to get_formatted_history.
MaxTurns == 3
\* Number of storage steps of the two concurrent save_conversation calls.
MaxRaceSteps == 4

VARIABLES
    MAX_CONVERSATION_HISTORY, \* config.py:28, fixed at start-up
    files,        \* memory directory: file path -> what the file holds
    clock,        \* datetime.utcnow(), advanced by every operation
    last,         \* outcome of the last Conversation Store call
    appended,     \* history variable: per file, the turns appended to the record
    external,     \* history variable: a file was changed from outside the program
    user_id,      \* MedicalChatbot.user_id
    show_sources, \* MedicalChatbot.show_sources
    pc,           \* where main() is: "init", "start", "loop", "done", "exited", "crashed"
    turn,         \* what the last _handle_user_input did and returned
    persisted_index, \* what VECTOR_DB_PATH holds
    vector_db,    \* the index handle the program holds (None: no handle)
    index_last,   \* outcome of the last Knowledge Index call
    procs,        \* two concurrent callers of save_conversation: where each is
    line_read     \* the last line the conversation loop read

vars == <<MAX_CONVERSATION_HISTORY, files, clock, last, appended, external,
          user_id, show_sources, pc, turn, persisted_index, vector_db, index_last,
          procs, line_read>>
storeVars == <<files, clock, last, appended, external>>
chatVars == <<user_id, show_sources, pc, turn>>
indexVars == <<persisted_index, vector_db, index_last>>

\* ------------------------------------------------------------- characters
AlnumChars == {"a", "b", "c", "d", "e", "f", "g", "h", "i", "j", "k", "l", "m",
               "n", "o", "p", "q", "r", "s", "t", "u", "v", "w", "x", "y", "z",
               "A", "B", "C", "D", "E", "F", "G", "H", "I", "J", "K", "L", "M",
               "N", "O", "P", "Q", "R", "S", "T", "U", "V", "W", "X", "Y", "Z",
               "0", "1", "2", "3", "4", "5", "6", "7", "8", "9"}

\* str.isalnum() of one character
isalnum(c) == c \in AlnumChars

\* The raw user ids the callers use.  "a" and "../a" differ only by characters
\* that the file name drops; "b-_" holds the two punctuation marks it keeps.
UserIds == { <<"a">>, <<"b", "-", "_">>, <<".", ".", "/", "a">> }

None == <<"None">>

\* ------------------------------------------------------------------ texts
\* config.py: the disclaimer is one text segment
MEDICAL_DISCLAIMER == "IMPORTANT DISCLAIMER: I am an AI assistant, NOT a doctor."

\* config.py: SEVERITY_KEYWORDS, in the order of the list
SEVERITY_KEYWORDS == <<
    <<"c", "h", "e", "s", "t", " ", "p", "a", "i", "n">>,
    <<"d", "i", "f", "f", "i", "c", "u", "l", "t", "y", " ", "b", "r", "e", "a", "t", "h", "i", "n", "g">>,
    <<"s", "e", "v", "e", "r", "e", " ", "h", "e", "a", "d", "a", "c", "h", "e">>,
    <<"s", "t", "r", "o", "k", "e">>,
    <<"h", "e", "a", "r", "t", " ", "a", "t", "t", "a", "c", "k">>,
    <<"u", "n", "c", "o", "n", "s", "c", "i", "o", "u", "s">>,
    <<"h", "i", "g", "h", " ", "f", "e", "v", "e", "r">>,
    <<"s", "e", "v", "e", "r", "e", " ", "b", "l", "e", "e", "d", "i", "n", "g">>,
    <<"a", "l", "l", "e", "r", "g", "i", "c", " ", "r", "e", "a", "c", "t", "i", "o", "n">>,
    <<"a", "n", "a", "p", "h", "y", "l", "a", "x", "i", "s">>,
    <<"s", "u", "d", "d", "e", "n", " ", "n", "u", "m", "b", "n", "e", "s", "s">>,
    <<"s", "l", "u", "r", "r", "e", "d", " ", "s", "p", "e", "e", "c", "h">>
>>

UpperChars == <<"A", "B", "C", "D", "E", "F", "G", "H", "I", "J", "K", "L", "M", "N", "O", "P", "Q", "R", "S", "T", "U", "V", "W", "X", "Y", "Z">>
LowerChars == <<"a", "b", "c", "d", "e", "f", "g", "h", "i", "j", "k", "l", "m", "n", "o", "p", "q", "r", "s", "t", "u", "v", "w", "x", "y", "z">>

\* str.lower() of one character
LowerChar(c) ==
    IF \E i \in 1..Len(UpperChars) : UpperChars[i] = c
    THEN LowerChars[CHOOSE i \in 1..Len(UpperChars) : UpperChars[i] = c]
    ELSE c

\* str.lower()
lower(s) == [i \in 1..Len(s) |-> LowerChar(s[i])]

\* str.strip(): the white space at both ends is dropped
Whitespace == {" ", "\t", "\n"}

RECURSIVE lstrip(_)
lstrip(s) == IF s # <<>> /\ Head(s) \in Whitespace THEN lstrip(Tail(s)) ELSE s

RECURSIVE rstrip(_)
rstrip(s) ==
    IF s # <<>> /\ s[Len(s)] \in Whitespace THEN rstrip(SubSeq(s, 1, Len(s) - 1)) ELSE s

strip(s) == rstrip(lstrip(s))

\* keyword in text
IsSubstring(keyword, text) ==
    \E i \in 0..(Len(text) - Len(keyword)) :
        SubSeq(text, i + 1, i + Len(keyword)) = keyword

\* The queries typed in the explored behaviours
QueryChestPain == <<"c", "h", "e", "s", "t", " ", "p", "a", "i", "n">>
QueryStroke == <<"I", " ", "h", "a", "d", " ", "a", " ", "S", "T", "R", "O", "K", "E">>
QueryHeadache == <<"m", "i", "l", "d", " ", "h", "e", "a", "d", "a", "c", "h", "e">>
\* medical_chatbot.py:329, the built-in query of --test
TestQuery == <<"W", "h", "a", "t", " ", "a", "r", "e", " ", "c", "o", "m", "m", "o", "n", " ", "s", "y", "m", "p", "t", "o", "m", "s", " ", "o", "f", " ", "t", "h", "e", " ", "f", "l", "u", "?">>
Queries == {QueryChestPain, QueryStroke, QueryHeadache}

\* What the remote model may answer (never the empty text, llm.py)
GeneratedAnswer == <<"It sounds like a tension headache. How long has it lasted?">>

\* ------------------------------------------------------ MemoryManager: paths
KeepsChar(c) == isalnum(c) \/ c \in {"-", "_"}

\* A path built from the raw user_id
_get_user_file_path_raw(uid) == uid \o <<".json">>

_get_user_file_path(uid) == SelectSeq(uid, KeepsChar) \o <<".json">>

FilePaths == { _get_user_file_path(u) : u \in UserIds }

\* --------------------------------------------------------- file contents
Missing == [tag |-> "missing"]          \* os.path.exists() is false
Unreadable == [tag |-> "unreadable"]    \* open() raises an OSError
Undecodable == [tag |-> "undecodable"]  \* bytes that are not UTF-8
BadJson == [tag |-> "badjson"]          \* text json.load() rejects (empty, truncated, ...)
JsonFile(doc) == [tag |-> "json", doc |-> doc]

\* Valid JSON documents that are no UserMemory record
JsonList == [type |-> "list"]           \* e.g. []
JsonEmptyDict == [type |-> "dict"]      \* {}

ExternalContents == {Unreadable, Undecodable, BadJson, JsonFile(JsonList),
                     JsonFile(JsonEmptyDict)}

\* ------------------------------------------------------- results of a call
Return(v) == [raised |-> FALSE, exc |-> "", value |-> v]
Raise(e) == [raised |-> TRUE, exc |-> e, value |-> None]

\* -------------------------------------------------- MemoryManager: loading
DefaultPreferences(uid) ==
    [name |-> uid, known_conditions |-> <<>>, allergies |-> <<>>]

_create_default_memory(uid, now) ==
    [type |-> "memory", user_id |-> uid, created_at |-> now,
     conversations |-> <<>>, preferences |-> DefaultPreferences(uid)]

\* except (json.JSONDecodeError, IOError): the two kinds of failure that are caught
CaughtOnLoad == {"unreadable", "badjson"}

get_user_memory(fs, uid, now) ==
    IF uid = None THEN Raise("TypeError")   \* "for c in user_id" on None
    ELSE
    LET f == fs[_get_user_file_path(uid)] IN
    IF f.tag = "missing" THEN Return(_create_default_memory(uid, now))
    ELSE IF f.tag \in CaughtOnLoad THEN Return(_create_default_memory(uid, now))
    ELSE IF f.tag = "undecodable" THEN Raise("UnicodeDecodeError")
    ELSE Return(f.doc)

\* memory[key] on what json.load() returned
Subscript(doc, key) ==
    IF doc.type = "list" THEN Raise("TypeError")
    ELSE IF doc.type = "dict" THEN Raise("KeyError")
    ELSE Return(IF key = "conversations" THEN doc.conversations ELSE doc.preferences)

\* memory.get(key, default) on what json.load() returned
DictGet(doc, key, default) ==
    IF doc.type = "list" THEN Raise("AttributeError")
    ELSE IF doc.type = "dict" THEN Return(default)
    ELSE Return(IF key = "conversations" THEN doc.conversations ELSE doc.preferences)

get_conversation_history(fs, uid, now) ==
    LET m == get_user_memory(fs, uid, now) IN
    IF m.raised THEN m ELSE DictGet(m.value, "conversations", <<>>)

get_user_preferences(fs, uid, now) ==
    LET m == get_user_memory(fs, uid, now) IN
    IF m.raised THEN m ELSE DictGet(m.value, "preferences", <<>>)

\* MemoryManager.list_users: the names of the files of the memory directory
\* that end in ".json", with the ".json" removed (os.listdir gives them in no
\* particular order)
list_users(fs) ==
    { SelectSeq(path, LAMBDA c : c # ".json") :
         path \in { f \in DOMAIN fs : fs[f].tag # "missing" /\ f[Len(f)] = ".json" } }

\* -------------------------------------------------- MemoryManager: writing
\* What the file system does to one open(path, 'w') + json.dump():
\*   "ok"         the file is written
\*   "open_fails" open() raises, the file is left as it was
\*   "dump_fails" open() has truncated the file and the write stops part-way
IoOutcomes == {"ok", "open_fails", "dump_fails"}

\* metadata values a caller may pass: None, or a dict holding a value json cannot encode
NoMetadata == "None"
BadMetadata == "unserialisable"
Metadatas == {NoMetadata, BadMetadata}

\* metadata or {}
MetadataOrEmpty(metadata) == IF metadata = NoMetadata THEN "{}" ELSE metadata

\* json.dump raises TypeError when it reaches a value it cannot encode
Serialisable(doc) ==
    \A i \in 1..Len(doc.conversations) : doc.conversations[i].metadata # BadMetadata

\* with open(file_path, 'w') as f: json.dump(memory, f, ...)
\* Returns the call's result and the files afterwards.
WriteJson(fs, path, doc, io) ==
    IF io = "open_fails" THEN [res |-> Raise("OSError"), files |-> fs]
    ELSE IF ~Serialisable(doc)
    THEN [res |-> Raise("TypeError"), files |-> [fs EXCEPT ![path] = BadJson]]
    ELSE IF io = "dump_fails"
    THEN [res |-> Raise("OSError"), files |-> [fs EXCEPT ![path] = BadJson]]
    ELSE [res |-> Return(None), files |-> [fs EXCEPT ![path] = JsonFile(doc)]]

NoWrite(res, fs) == [res |-> res, files |-> fs]

Max(a, b) == IF a > b THEN a ELSE b

Min(a, b) == IF a < b THEN a ELSE b

\* A trim that keeps the oldest n
FirstN(lst, n) == SubSeq(lst, 1, Min(n, Len(lst)))

\* Python's lst[-n:] for n >= 0: the start index -n counts from the end when it
\* is negative, and -0 is 0, the start of the list.
LastN(lst, n) ==
    LET start == IF -n < 0 THEN Max(Len(lst) - n, 0) ELSE 0 IN
    SubSeq(lst, start + 1, Len(lst))

\* An entry with the two texts in each other's place
ConversationEntrySwapped(user_message, bot_response, metadata, now) ==
    [timestamp |-> now, user_message |-> bot_response,
     bot_response |-> user_message, metadata |-> MetadataOrEmpty(metadata)]

ConversationEntry(user_message, bot_response, metadata, now) ==
    [timestamp |-> now, user_message |-> user_message,
     bot_response |-> bot_response, metadata |-> MetadataOrEmpty(metadata)]

\* A trim that keeps the oldest turns
TrimmedKeepingOldest(conversations, cap) ==
    IF Len(conversations) > cap THEN SubSeq(conversations, 1, cap) ELSE conversations

\* The conversations list after the append and the trim
Trimmed(conversations, cap) ==
    IF Len(conversations) > cap THEN LastN(conversations, cap) ELSE conversations

\* A save that starts from a fresh record whatever the file holds
save_conversation_memory_fresh(fs, uid, user_message, bot_response, metadata, now, cap) ==
    IF uid = None THEN Raise("TypeError")
    ELSE Return([_create_default_memory(uid, now) EXCEPT
                    !.conversations =
                        Trimmed(<<ConversationEntry(user_message, bot_response,
                                                    metadata, now)>>, cap)])

\* save_conversation up to its write: the record is loaded, the entry appended
\* and the list trimmed, all in the caller's memory
save_conversation_memory(fs, uid, user_message, bot_response, metadata, now, cap) ==
    LET m == get_user_memory(fs, uid, now) IN
    IF m.raised THEN m
    ELSE LET c == Subscript(m.value, "conversations") IN
         IF c.raised THEN c
         ELSE LET entry == ConversationEntry(user_message, bot_response, metadata, now)
              IN Return([m.value EXCEPT
                            !.conversations = Trimmed(Append(c.value, entry), cap)])

save_conversation(fs, uid, user_message, bot_response, metadata, now, cap, io) ==
    LET memory == save_conversation_memory(fs, uid, user_message, bot_response,
                                           metadata, now, cap)
    IN IF memory.raised THEN NoWrite(memory, fs)
       ELSE WriteJson(fs, _get_user_file_path(uid), memory.value, io)

\* An update that replaces the whole mapping
DictReplace(preferences, patch) == patch

\* dict.update: the patch's keys overwrite, the other keys stay
DictUpdate(preferences, patch) ==
    [k \in DOMAIN preferences \cup DOMAIN patch |->
        IF k \in DOMAIN patch THEN patch[k] ELSE preferences[k]]

update_user_preferences(fs, uid, patch, now, io) ==
    LET m == get_user_memory(fs, uid, now) IN
    IF m.raised THEN NoWrite(m, fs)
    ELSE LET p == Subscript(m.value, "preferences") IN
         IF p.raised THEN NoWrite(p, fs)
         ELSE WriteJson(fs, _get_user_file_path(uid),
                        [m.value EXCEPT !.preferences = DictUpdate(p.value, patch)], io)

\* A clear that removes the user's file
clear_user_memory_deleting(fs, uid, now, io) ==
    IF io = "open_fails" THEN [res |-> Raise("OSError"), files |-> fs]
    ELSE [res |-> Return(None), files |-> [fs EXCEPT ![_get_user_file_path(uid)] = Missing]]

\* A clear that empties the conversations and keeps the stored preferences
clear_user_memory_keeping_preferences(fs, uid, now, io) ==
    LET f == fs[_get_user_file_path(uid)]
        fresh == _create_default_memory(uid, now)
    IN WriteJson(fs, _get_user_file_path(uid),
                 IF f.tag = "json" /\ f.doc.type = "memory"
                 THEN [fresh EXCEPT !.preferences = f.doc.preferences]
                 ELSE fresh, io)

clear_user_memory(fs, uid, now, io) ==
    WriteJson(fs, _get_user_file_path(uid), _create_default_memory(uid, now), io)

\* ------------------------------------------------------- Knowledge Index
\* config.py:36
RETRIEVER_K == 5

\* The documents a successful similarity search finds for a query
IndexedDocs ==
    << [page_content |-> <<"Tension headaches are the most common type of headache.">>,
        metadata |-> "data/pdfs/headache.pdf"],
       [page_content |-> <<"Influenza causes fever, cough and muscle aches.">>,
        metadata |-> "data/csvs/symptoms.csv"] >>

\* The documents that match a query that many documents match, best match
\* first: more than RETRIEVER_K of them, one longer than 200 characters
ManyDocs ==
    << [page_content |-> <<"Tension headaches are the most common type of headache.">>,
        metadata |-> "data/pdfs/headache.pdf"],
       [page_content |-> [i \in 1..201 |-> "y"],
        metadata |-> "data/pdfs/influenza.pdf"],
       [page_content |-> <<"Influenza causes fever, cough and muscle aches.">>,
        metadata |-> "data/csvs/symptoms.csv"],
       [page_content |-> <<"Migraine often comes with nausea.">>,
        metadata |-> "data/pdfs/headache.pdf"],
       [page_content |-> <<"Rest and fluids help with a common cold.">>,
        metadata |-> "data/csvs/symptoms.csv"],
       [page_content |-> <<"Dehydration can cause headaches.">>,
        metadata |-> "data/pdfs/headache.pdf"] >>

\* What the index does to one similarity_search()
SearchOutcomes == {"found", "raises"}

\* The same, with a search that many documents match
ChainSearchOutcomes == {"found", "found_many", "raises"}

\* The documents that match the query, best match first
MatchingDocs(outcome) == IF outcome = "found_many" THEN ManyDocs ELSE IndexedDocs

\* Python's s[:n]
Prefix(s, n) == SubSeq(s, 1, Min(n, Len(s)))

search_vector_db(handle, query, k, outcome) ==
    IF handle = None THEN <<>>
    ELSE IF outcome = "raises" THEN <<>>
    ELSE Prefix(MatchingDocs(outcome), k)

\* The handle of a built or loaded index
VectorDb == <<"FAISS">>

\* What VECTOR_DB_PATH holds: nothing, index.faiss without index.pkl (a save
\* that stopped part-way), or the index of a document collection
NoIndex == [tag |-> "none"]
PartialIndex == [tag |-> "partial"]
Index(documents) == [tag |-> "index", docs |-> documents]

\* The document collections load_all_documents() may return and callers may pass
DocumentCollections == {<<>>, Prefix(IndexedDocs, 1), IndexedDocs}

\* medical_chatbot.py:131, the document that stands in for an empty collection
PlaceholderDocuments ==
    << [page_content |-> <<"No medical documents loaded.">>, metadata |-> "system"] >>

\* What the embedding model and the file system do to one index call:
\*   "embed_fails" get_embeddings() / FAISS.from_documents() raises
\*   "save_fails"  save_local() raises after index.faiss is written
\*   "load_fails"  FAISS.load_local() raises
IndexOutcomes == {"ok", "embed_fails", "save_fails", "load_fails"}

\* A build that indexes and saves an empty collection like any other
build_vector_db_saving_empty(index, documents, outcome) ==
    IF outcome = "embed_fails" THEN [res |-> Raise("RuntimeError"), index |-> index]
    ELSE IF outcome = "save_fails" THEN [res |-> Raise("OSError"), index |-> PartialIndex]
    ELSE [res |-> Return(VectorDb), index |-> Index(documents)]

\* build_vector_db(documents): its result and what VECTOR_DB_PATH holds afterwards
build_vector_db(index, documents, outcome) ==
    IF documents = <<>> THEN [res |-> Return(None), index |-> index]
    ELSE IF outcome = "embed_fails" THEN [res |-> Raise("RuntimeError"), index |-> index]
    ELSE IF outcome = "save_fails" THEN [res |-> Raise("OSError"), index |-> PartialIndex]
    ELSE [res |-> Return(VectorDb), index |-> Index(documents)]

load_vector_db(index, outcome) ==
    IF index.tag = "none" THEN Return(None)
    ELSE IF outcome = "embed_fails" THEN Raise("RuntimeError")
    ELSE IF index.tag = "partial" \/ outcome = "load_fails" THEN Return(None)
    ELSE Return(VectorDb)

\* MedicalChatbot._load_or_build_vector_db(rebuild); loaded is what
\* load_all_documents() returns
_load_or_build_vector_db(index, rebuild, loaded, outcome) ==
    IF rebuild \/ index.tag # "index"
    THEN IF loaded = <<>> /\ outcome = "embed_fails"
         THEN [res |-> Raise("RuntimeError"), index |-> index]
         ELSE build_vector_db(index,
                              IF loaded = <<>> THEN PlaceholderDocuments ELSE loaded,
                              outcome)
    ELSE [res |-> load_vector_db(index, outcome), index |-> index]

\* ------------------------------------------------------- MedicalRAGChain
\* The check without query.lower()
_check_severity_case_sensitive(query) ==
    \E n \in 1..Len(SEVERITY_KEYWORDS) : IsSubstring(SEVERITY_KEYWORDS[n], query)

\* The check with equality in the place of "in"
_check_severity_exact(query) ==
    \E query_lower \in {lower(query)} :
        \E n \in 1..Len(SEVERITY_KEYWORDS) : SEVERITY_KEYWORDS[n] = query_lower

_check_severity(query) ==
    \E query_lower \in {lower(query)} :
        \E n \in 1..Len(SEVERITY_KEYWORDS) :
            IsSubstring(SEVERITY_KEYWORDS[n], query_lower)

_get_severity_warning ==
    <<"IMPORTANT - SEEK MEDICAL ATTENTION", MEDICAL_DISCLAIMER>>

\* "\n".join(lines)
RECURSIVE JoinLines(_)
JoinLines(lines) ==
    IF lines = <<>> THEN <<>>
    ELSE IF Len(lines) = 1 THEN lines[1]
    ELSE lines[1] \o <<"\n">> \o JoinLines(Tail(lines))

\* f"User: {conv['user_message']}"
UserLine(conv) == <<"User: ">> \o conv.user_message

\* The "Assistant:" line of get_formatted_history: the response cut to 200
\* characters and marked with "..." when it is longer than that
AssistantLine(conv) ==
    IF Len(conv.bot_response) > 200
    THEN <<"Assistant: ">> \o Prefix(conv.bot_response, 200) \o <<"...">>
    ELSE <<"Assistant: ">> \o conv.bot_response

\* The "Assistant:" line of _format_chat_history: "..." follows every response
AssistantLineEllipsis(conv) ==
    <<"Assistant: ">> \o Prefix(conv.bot_response, 200) \o <<"...">>

\* The loop of get_formatted_history over recent_conversations
FormattedLines(recent) ==
    [i \in 1..(2 * Len(recent)) |->
        IF i % 2 = 1 THEN UserLine(recent[(i + 1) \div 2])
        ELSE AssistantLine(recent[i \div 2])]

\* MemoryManager.get_formatted_history
get_formatted_history(fs, uid, max_turns, now) ==
    LET conversations == get_conversation_history(fs, uid, now) IN
    IF conversations.raised THEN conversations
    ELSE IF conversations.value = <<>> THEN Return(<<>>)
    ELSE Return(JoinLines(FormattedLines(LastN(conversations.value, max_turns))))

\* MedicalRAGChain._format_chat_history: the last 10 turns, each as a "User:"
\* line and an "Assistant:" line that ends with "..."
_format_chat_history(fs, uid, now) ==
    LET conversations == get_conversation_history(fs, uid, now) IN
    IF conversations.raised THEN conversations
    ELSE IF conversations.value = <<>> THEN Return(<<>>)
    ELSE LET recent == LastN(conversations.value, 10) IN
         Return(JoinLines([i \in 1..(2 * Len(recent)) |->
                    IF i % 2 = 1 THEN UserLine(recent[(i + 1) \div 2])
                    ELSE AssistantLineEllipsis(recent[i \div 2])]))

\* What the remote model does with one prompt (after its own retries)
GenerationOutcomes == {"answers", "raises"}

\* str(e) of the generation failure
GenerationError == "Connection error."

\* The apology without the disclaimer
InvokeApologyWithoutDisclaimer ==
    <<"I apologize, but I encountered an error processing your query: ",
      GenerationError>>

InvokeApology ==
    <<"I apologize, but I encountered an error processing your query: ",
      GenerationError, MEDICAL_DISCLAIMER>>

\* self.chain.invoke(chain_input)
ChainInvoke(chain_input, outcome) ==
    IF outcome = "raises" THEN Raise("APIConnectionError") ELSE Return(GeneratedAnswer)

\* An orchestrator that searches the index before it checks the severity
invoke_searching_first(handle, uid, query, return_sources, fs, now, searchOutcome, genOutcome) ==
    LET docs == search_vector_db(handle, query, RETRIEVER_K, searchOutcome)
        searchFailed == IF searchOutcome = "raises" THEN {"retrieve"} ELSE {}
    IN
    IF _check_severity(query)
    THEN [res |-> Return([answer |-> _get_severity_warning, sources |-> <<>>,
                          severity_detected |-> TRUE]),
          trace |-> <<"retrieve", "severity">>, failed |-> searchFailed, files |-> fs,
          conversation_history |-> <<>>]
    ELSE LET chat_history == _format_chat_history(fs, uid, now)
             sources == [i \in 1..Len(docs) |->
                            [content |-> Prefix(docs[i].page_content, 200),
                             metadata |-> docs[i].metadata]]
         IN IF chat_history.raised
            THEN [res |-> chat_history, trace |-> <<"retrieve", "severity", "recall">>,
                  failed |-> searchFailed \cup {"recall"}, files |-> fs,
                  conversation_history |-> <<>>]
            ELSE LET chain_input == [context |-> [i \in 1..Len(docs) |-> docs[i].page_content],
                                     question |-> query,
                                     conversation_history |-> chat_history.value]
                     g == ChainInvoke(chain_input, genOutcome)
                     answer == IF g.raised THEN InvokeApology ELSE g.value
                 IN [res |-> Return([answer |-> answer, sources |-> sources,
                                     severity_detected |-> FALSE]),
                     trace |-> <<"retrieve", "severity", "recall", "compose", "generate">>,
                     failed |-> searchFailed \cup
                                (IF g.raised THEN {"generate"} ELSE {}),
                     files |-> fs,
                     conversation_history |-> chain_input.conversation_history]

\* MedicalRAGChain.invoke: its result, the steps it went through, the steps that
\* failed, the storage as it is when invoke returns or raises (invoke reads
\* the store and never writes it) and the conversation_history of the
\* chain_input it made, empty when it made none
invoke(handle, uid, query, return_sources, fs, now, searchOutcome, genOutcome) ==
    IF _check_severity(query)
    THEN [res |-> Return([answer |-> _get_severity_warning, sources |-> <<>>,
                          severity_detected |-> TRUE]),
          trace |-> <<"severity">>, failed |-> {}, files |-> fs,
          conversation_history |-> <<>>]
    ELSE LET docs == search_vector_db(handle, query, RETRIEVER_K, searchOutcome)
             searchFailed == IF searchOutcome = "raises" THEN {"retrieve"} ELSE {}
             chat_history == _format_chat_history(fs, uid, now)
             sources == [i \in 1..Len(docs) |->
                            [content |-> Prefix(docs[i].page_content, 200),
                             metadata |-> docs[i].metadata]]
         IN IF chat_history.raised
            THEN [res |-> chat_history, trace |-> <<"severity", "retrieve", "recall">>,
                  failed |-> searchFailed \cup {"recall"}, files |-> fs,
                  conversation_history |-> <<>>]
            ELSE LET chain_input == [context |-> [i \in 1..Len(docs) |-> docs[i].page_content],
                                     question |-> query,
                                     conversation_history |-> chat_history.value]
                     g == ChainInvoke(chain_input, genOutcome)
                     answer == IF g.raised THEN InvokeApology ELSE g.value
                 IN [res |-> Return([answer |-> answer, sources |-> sources,
                                     severity_detected |-> FALSE]),
                     trace |-> <<"severity", "retrieve", "recall", "compose", "generate">>,
                     failed |-> searchFailed \cup
                                (IF g.raised THEN {"generate"} ELSE {}),
                     files |-> fs,
                     conversation_history |-> chain_input.conversation_history]

\* The number that enumerate(result["sources"], 1) gives, as text
SourceNumber(i) == <<"1", "2", "3", "4", "5", "6", "7", "8", "9">>[i]

\* The lines run appends for the sources: f"{i}. {source['content'][:100]}...\n"
RECURSIVE SourceLines(_, _)
SourceLines(sources, i) ==
    IF i > Len(sources) THEN <<>>
    ELSE <<SourceNumber(i), ". ">> \o Prefix(sources[i].content, 100) \o <<"...\n">>
         \o SourceLines(sources, i + 1)

\* MedicalRAGChain.run once invoke has given r: the answer, followed by the
\* sources when they are asked for and there are some
AfterRunInvoke(r, return_sources) ==
    IF r.res.raised THEN r.res
    ELSE LET result == r.res.value IN
         IF return_sources /\ result.sources # <<>>
         THEN Return(result.answer \o <<"\n\n", "**Sources:**", "\n">>
                     \o SourceLines(result.sources, 1))
         ELSE Return(result.answer)

\* -------------------------------------------------------- MedicalChatbot
\* The exception classes that "except Exception" catches
ExceptionClasses == {"TypeError", "KeyError", "AttributeError", "UnicodeDecodeError",
                     "OSError", "APIConnectionError"}

HandlerApology ==
    <<"I apologize, but I encountered an error. Please try again.", MEDICAL_DISCLAIMER>>

\* A handler that catches OSError alone
ExceptOSErrorOnly(t) ==
    IF t.raised /\ t.exc = "OSError"
    THEN [t EXCEPT !.raised = FALSE, !.response = HandlerApology]
    ELSE t

\* except Exception as e: ... return the apology
ExceptException(t) ==
    IF t.raised /\ t.exc \in ExceptionClasses
    THEN [t EXCEPT !.raised = FALSE, !.response = HandlerApology]
    ELSE t

\* The try block of _handle_user_input once invoke has given r
AfterInvoke(r, uid, user_input, fs, now, cap, io) ==
    IF r.res.raised
    THEN [input |-> user_input, response |-> None, raised |-> TRUE, exc |-> r.res.exc,
          trace |-> r.trace, failed |-> r.failed, invoke_raised |-> TRUE,
          result |-> None, stored |-> FALSE, invoked |-> r.files, files |-> r.files,
          conversation_history |-> r.conversation_history]
    ELSE LET answer == r.res.value.answer
             w == save_conversation(r.files, uid, user_input, answer, NoMetadata, now,
                                    cap, io)
         IN [input |-> user_input,
             response |-> IF w.res.raised THEN None ELSE answer,
             raised |-> w.res.raised, exc |-> w.res.exc,
             trace |-> r.trace \o <<"persist">>,
             failed |-> r.failed \cup (IF w.res.raised THEN {"persist"} ELSE {}),
             invoke_raised |-> FALSE, result |-> r.res.value,
             stored |-> ~w.res.raised, invoked |-> r.files, files |-> w.files,
             conversation_history |-> r.conversation_history]

\* The body of the try block of _handle_user_input
TryHandle(uid, user_input, show, fs, now, cap, searchOutcome, genOutcome, io) ==
    CHOOSE t \in { AfterInvoke(r, uid, user_input, fs, now, cap, io) :
                      r \in {invoke(vector_db, uid, user_input, show, fs, now,
                                     searchOutcome, genOutcome)} } : TRUE

\* The return of the text ("respond") ends the handler's steps unless the
\* exception leaves the handler
Respond(t) == IF t.raised THEN t ELSE [t EXCEPT !.trace = @ \o <<"respond">>]

_handle_user_input(uid, user_input, show, fs, now, cap, searchOutcome, genOutcome, io) ==
    CHOOSE handled \in
        { Respond(ExceptException(t)) :
             t \in {TryHandle(uid, user_input, show, fs, now, cap, searchOutcome,
                              genOutcome, io)} } : TRUE

\* ------------------------------------------------- callers of the store
\* The (user_message, bot_response) pairs the callers of the store pass
Exchanges == { [user_message |-> QueryHeadache, bot_response |-> GeneratedAnswer],
               [user_message |-> QueryChestPain, bot_response |-> <<MEDICAL_DISCLAIMER>>] }

\* The preference patches the callers pass
PreferencePatches == { [allergies |-> <<"penicillin">>],
                       [known_conditions |-> <<"asthma">>, language |-> "es"] }

NoCall == [op |-> "none", user_id |-> None, io |-> "ok", now |-> 0,
           found |-> Missing, left |-> Missing, res |-> Return(None), max_turns |-> 0]

\* A call of the store as its caller and the file system see it: the operation,
\* its user, what the file system did to its write, the time, what the user's
\* file held when the call started and when it ended, the call's result, and
\* the max_turns of a get_formatted_history (0 for the other operations).
Call(op, uid, io, newFiles, res) ==
    [op |-> op, user_id |-> uid, io |-> io, now |-> clock,
     found |-> files[_get_user_file_path(uid)],
     left |-> newFiles[_get_user_file_path(uid)], res |-> res, max_turns |-> 0]

\* The two callers that share the memory directory
Procs == {1, 2}

\* A caller that has not called save_conversation yet
Idle == [pc |-> "idle"]

\* No line has been read
NoLine == [line |-> None]

NoIndexCall == [op |-> "none", documents |-> <<>>, res |-> Return(None),
                found |-> NoIndex, left |-> NoIndex]

\* A call of the Knowledge Index: the operation, the documents passed, the
\* result, and what VECTOR_DB_PATH held when the call started and when it ended
IndexCall(op, documents, res, newIndex) ==
    [op |-> op, documents |-> documents, res |-> res,
     found |-> persisted_index, left |-> newIndex]

NoTurn == [input |-> None, response |-> None, raised |-> FALSE, exc |-> "",
           trace |-> <<>>, failed |-> {}, invoke_raised |-> FALSE, result |-> None,
           stored |-> FALSE, io |-> "ok", before |-> Return(<<>>),
           at_return |-> Return(<<>>), history |-> Return(<<>>),
           conversation_history |-> <<>>,
           formatted_history |-> Return(<<>>)]

\* The turns appended to the record at path since it was last empty: a write
\* that leaves no readable record, a clear and an outside change start afresh.
AppendedAfter(path, isStored, newFiles, entry) ==
    IF isStored THEN [appended EXCEPT ![path] = Append(@, entry)]
    ELSE IF newFiles[path] # files[path] THEN [appended EXCEPT ![path] = <<>>]
    ELSE appended

Init ==
    /\ MAX_CONVERSATION_HISTORY \in 0..MaxCap
    /\ files = [p \in FilePaths |-> Missing]
    /\ clock = 0
    /\ last = NoCall
    /\ appended = [p \in FilePaths |-> <<>>]
    /\ external = FALSE
    /\ user_id = None
    /\ show_sources = FALSE
    /\ pc = "start"
    /\ turn = NoTurn
    /\ persisted_index = Index(IndexedDocs)
    /\ vector_db = VectorDb
    /\ index_last = NoIndexCall
    /\ procs = [p \in Procs |-> Idle]
    /\ line_read = NoLine

\* MemoryManager.save_conversation(uid, ...)
SaveConversation(uid, ex, metadata, io) ==
    /\ clock < MaxOps
    /\ LET w == save_conversation(files, uid, ex.user_message, ex.bot_response,
                                  metadata, clock, MAX_CONVERSATION_HISTORY, io)
           entry == ConversationEntry(ex.user_message, ex.bot_response, metadata, clock)
       IN /\ files' = w.files
          /\ last' = Call("save_conversation", uid, io, w.files, w.res)
          /\ appended' = AppendedAfter(_get_user_file_path(uid), ~w.res.raised,
                                       w.files, entry)
    /\ clock' = clock + 1
    /\ UNCHANGED <<MAX_CONVERSATION_HISTORY, indexVars, procs, line_read, external, chatVars>>

\* MemoryManager.update_user_preferences(uid, patch)
UpdateUserPreferences(uid, patch, io) ==
    /\ clock < MaxOps
    /\ LET w == update_user_preferences(files, uid, patch, clock, io)
           path == _get_user_file_path(uid)
       IN /\ files' = w.files
          /\ last' = Call("update_user_preferences", uid, io, w.files, w.res)
          /\ appended' = IF w.res.raised /\ w.files[path] # files[path]
                         THEN [appended EXCEPT ![path] = <<>>]
                         ELSE appended
    /\ clock' = clock + 1
    /\ UNCHANGED <<MAX_CONVERSATION_HISTORY, indexVars, procs, line_read, external, chatVars>>

\* MemoryManager.clear_user_memory(uid)
ClearUserMemory(uid, io) ==
    /\ clock < MaxOps
    /\ LET w == clear_user_memory(files, uid, clock, io)
           path == _get_user_file_path(uid)
       IN /\ files' = w.files
          /\ last' = Call("clear_user_memory", uid, io, w.files, w.res)
          /\ appended' = IF w.files[path] # files[path]
                         THEN [appended EXCEPT ![path] = <<>>]
                         ELSE appended
    /\ clock' = clock + 1
    /\ UNCHANGED <<MAX_CONVERSATION_HISTORY, indexVars, procs, line_read, external, chatVars>>

\* MemoryManager.get_user_memory(uid)
GetUserMemory(uid) ==
    /\ clock < MaxOps
    /\ last' = Call("get_user_memory", uid, "ok", files,
                    get_user_memory(files, uid, clock))
    /\ clock' = clock + 1
    /\ UNCHANGED <<MAX_CONVERSATION_HISTORY, indexVars, procs, line_read, files, appended, external, chatVars>>

\* The environment: a file of the memory directory is replaced, damaged or made
\* unreadable from outside the program.
DamageFile(path, content) ==
    /\ clock < MaxOps
    /\ files' = [files EXCEPT ![path] = content]
    /\ appended' = [appended EXCEPT ![path] = <<>>]
    /\ external' = TRUE
    /\ clock' = clock + 1
    /\ UNCHANGED <<MAX_CONVERSATION_HISTORY, indexVars, procs, line_read, last, chatVars>>

Next ==
    \/ \E uid \in UserIds, ex \in Exchanges, metadata \in Metadatas, io \in IoOutcomes :
          SaveConversation(uid, ex, metadata, io)
    \/ \E uid \in UserIds, patch \in PreferencePatches, io \in IoOutcomes :
          UpdateUserPreferences(uid, patch, io)
    \/ \E uid \in UserIds, io \in IoOutcomes : ClearUserMemory(uid, io)
    \/ \E uid \in UserIds : GetUserMemory(uid)
    \/ \E path \in FilePaths, content \in ExternalContents : DamageFile(path, content)

Spec == Init /\ [][Next]_vars

\* ------------------------------------------- the store's formatted history
\* A response of exactly 200 characters and one of 201
Response200 == [i \in 1..200 |-> "x"]
Response201 == [i \in 1..201 |-> "x"]

\* The exchanges stored before the history is formatted
FormatExchanges == { [user_message |-> QueryHeadache, bot_response |-> GeneratedAnswer],
                     [user_message |-> QueryHeadache, bot_response |-> Response200],
                     [user_message |-> QueryChestPain, bot_response |-> Response201] }

\* MemoryManager.get_formatted_history(uid, max_turns)
GetFormattedHistory(uid, max_turns) ==
    /\ clock < MaxOps
    /\ last' = [Call("get_formatted_history", uid, "ok", files,
                     get_formatted_history(files, uid, max_turns, clock))
                   EXCEPT !.max_turns = max_turns]
    /\ clock' = clock + 1
    /\ UNCHANGED <<MAX_CONVERSATION_HISTORY, indexVars, procs, line_read, files, appended,
                   external, chatVars>>

FormatNext ==
    \/ \E uid \in UserIds, ex \in FormatExchanges :
          SaveConversation(uid, ex, NoMetadata, "ok")
    \/ \E uid \in UserIds, max_turns \in 0..MaxTurns : GetFormattedHistory(uid, max_turns)

FormatSpec == Init /\ [][FormatNext]_vars

\* ------------------------------- two concurrent calls of save_conversation
\* The store takes no lock: between the load of the record (line 88) and the
\* write of the file (lines 106-107) the other caller may load or write.

\* Caller p enters save_conversation(uid, ...): the record is loaded and the
\* new list is made in the caller's memory
RaceLoad(p, uid, ex) ==
    /\ clock < MaxRaceSteps
    /\ procs[p].pc = "idle"
    /\ procs' = [procs EXCEPT ![p] =
                    [pc |-> "loaded", user_id |-> uid,
                     memory |-> save_conversation_memory(files, uid, ex.user_message,
                                                         ex.bot_response, NoMetadata,
                                                         clock, MAX_CONVERSATION_HISTORY),
                     entry |-> ConversationEntry(ex.user_message, ex.bot_response,
                                                 NoMetadata, clock),
                     loaded_at |-> clock, written_at |-> 0, written |-> FALSE]]
    /\ clock' = clock + 1
    /\ UNCHANGED <<MAX_CONVERSATION_HISTORY, indexVars, line_read, files, last, appended,
                   external, chatVars>>

\* Caller p writes the record it holds
RaceWrite(p, io) ==
    /\ clock < MaxRaceSteps
    /\ procs[p].pc = "loaded"
    /\ LET w == IF procs[p].memory.raised THEN NoWrite(procs[p].memory, files)
                ELSE WriteJson(files, _get_user_file_path(procs[p].user_id),
                               procs[p].memory.value, io)
       IN /\ files' = w.files
          /\ procs' = [procs EXCEPT ![p].pc = "done", ![p].written_at = clock,
                                    ![p].written = ~w.res.raised]
    /\ clock' = clock + 1
    /\ UNCHANGED <<MAX_CONVERSATION_HISTORY, indexVars, line_read, last, appended,
                   external, chatVars>>

RaceNext ==
    \/ \E p \in Procs, uid \in UserIds, ex \in Exchanges : RaceLoad(p, uid, ex)
    \/ \E p \in Procs, io \in IoOutcomes : RaceWrite(p, io)

RaceSpec == Init /\ [][RaceNext]_vars

\* --------------------------------------------- the callers of the chain
\* MedicalRAGChain.run(uid, query, return_sources) called on the chain: what
\* was asked, the result of its invoke and the text run returns
RunChain(uid, query, return_sources, searchOutcome, genOutcome) ==
    /\ clock < MaxOps
    /\ \E r \in {invoke(vector_db, uid, query, return_sources, files, clock,
                         searchOutcome, genOutcome)} :
          turn' = [input |-> query, user_id |-> uid, return_sources |-> return_sources,
                   invoke_raised |-> r.res.raised, result |-> r.res.value,
                   failed |-> r.failed, run_response |-> AfterRunInvoke(r, return_sources)]
    /\ clock' = clock + 1
    /\ UNCHANGED <<MAX_CONVERSATION_HISTORY, indexVars, procs, line_read, files, last,
                   appended, external, user_id, show_sources, pc>>

ChainNext ==
    \/ \E uid \in UserIds, query \in Queries, return_sources \in BOOLEAN,
          searchOutcome \in ChainSearchOutcomes, genOutcome \in GenerationOutcomes :
          RunChain(uid, query, return_sources, searchOutcome, genOutcome)
    \/ \E uid \in UserIds, ex \in Exchanges : SaveConversation(uid, ex, NoMetadata, "ok")

ChainSpec == Init /\ [][ChainNext]_vars

\* ------------------------------------------------------ the chatbot program
ChatInit ==
    /\ MAX_CONVERSATION_HISTORY \in 0..MaxCap
    /\ files = [p \in FilePaths |-> Missing]
    /\ clock = 0
    /\ last = NoCall
    /\ appended = [p \in FilePaths |-> <<>>]
    /\ external = FALSE
    /\ user_id = None
    /\ show_sources \in BOOLEAN
    /\ pc = "start"
    /\ turn = NoTurn
    /\ persisted_index = Index(IndexedDocs)
    /\ vector_db = VectorDb
    /\ index_last = NoIndexCall
    /\ procs = [p \in Procs |-> Idle]
    /\ line_read = NoLine

\* What the turn leaves to be observed: what _handle_user_input returned and
\* went through, what the file system did to its write, and what
\* get_conversation_history gives for the user before the turn, when invoke
\* has returned and after the turn; the conversation_history invoke put in the
\* prompt, and what get_formatted_history(user_id, max_turns=10) gives on the
\* storage invoke read
TurnRecord(t, io) ==
    [input |-> t.input, response |-> t.response, raised |-> t.raised, exc |-> t.exc,
     trace |-> t.trace, failed |-> t.failed, invoke_raised |-> t.invoke_raised,
     result |-> t.result, stored |-> t.stored, io |-> io,
     before |-> get_conversation_history(files, user_id, clock),
     at_return |-> get_conversation_history(t.invoked, user_id, clock),
     history |-> get_conversation_history(t.files, user_id, clock),
     conversation_history |-> t.conversation_history,
     formatted_history |-> get_formatted_history(files, user_id, 10, clock)]

\* MedicalChatbot.run: self.user_id = self._authenticate_user()
Login(uid) ==
    /\ pc = "start"
    /\ user_id' = uid
    /\ pc' = "loop"
    /\ UNCHANGED <<MAX_CONVERSATION_HISTORY, indexVars, procs, line_read, storeVars, show_sources, turn>>

\* MedicalChatbot.run: one non-command line of the conversation loop
HandleUserInput(query, searchOutcome, genOutcome, io) ==
    /\ pc = "loop"
    /\ clock < MaxOps
    /\ \E t \in {_handle_user_input(user_id, query, show_sources, files, clock,
                                     MAX_CONVERSATION_HISTORY, searchOutcome,
                                     genOutcome, io)} :
          LET entry == ConversationEntry(query, t.response, NoMetadata, clock)
          IN
          /\ files' = t.files
          /\ turn' = TurnRecord(t, io)
          /\ appended' = AppendedAfter(_get_user_file_path(user_id), t.stored,
                                       t.files, entry)
    /\ clock' = clock + 1
    /\ UNCHANGED <<MAX_CONVERSATION_HISTORY, indexVars, procs, line_read, last, external, user_id, show_sources, pc>>

\* main() with --test: one query, nobody has logged in
RunTest(searchOutcome, genOutcome, io) ==
    /\ pc = "start"
    /\ \E t \in {_handle_user_input(user_id, TestQuery, show_sources, files, clock,
                                     MAX_CONVERSATION_HISTORY, searchOutcome,
                                     genOutcome, io)} :
          /\ files' = t.files
          /\ turn' = TurnRecord(t, io)
    /\ clock' = clock + 1
    /\ pc' = "done"
    /\ UNCHANGED <<MAX_CONVERSATION_HISTORY, indexVars, procs, line_read, last, appended, external, user_id,
                   show_sources>>

\* "/clear": the write's failure is not caught by the loop
CommandClear(io) ==
    /\ pc = "loop"
    /\ clock < MaxOps
    /\ LET w == clear_user_memory(files, user_id, clock, io)
           path == _get_user_file_path(user_id)
       IN /\ files' = w.files
          /\ appended' = IF w.files[path] # files[path]
                         THEN [appended EXCEPT ![path] = <<>>]
                         ELSE appended
          /\ pc' = IF w.res.raised THEN "crashed" ELSE "loop"
    /\ clock' = clock + 1
    /\ UNCHANGED <<MAX_CONVERSATION_HISTORY, indexVars, procs, line_read, last, external, user_id, show_sources, turn>>

\* "/sources"
CommandSources ==
    /\ pc = "loop"
    /\ show_sources' = ~show_sources
    /\ UNCHANGED <<MAX_CONVERSATION_HISTORY, indexVars, procs, line_read, storeVars, user_id, pc, turn>>

\* "/exit", end of input or an interrupt at the prompt
CommandExit ==
    /\ pc = "loop"
    /\ pc' = "done"
    /\ UNCHANGED <<MAX_CONVERSATION_HISTORY, indexVars, procs, line_read, storeVars, user_id, show_sources, turn>>

\* The environment damages the file of the user who is logged in (the chatbot
\* touches no other file)
ChatDamageFile(path, content) ==
    /\ pc = "loop"
    /\ path = _get_user_file_path(user_id)
    /\ DamageFile(path, content)

ChatNext ==
    \/ \E uid \in UserIds : Login(uid)
    \/ \E query \in Queries, searchOutcome \in SearchOutcomes,
          genOutcome \in GenerationOutcomes, io \in IoOutcomes :
          HandleUserInput(query, searchOutcome, genOutcome, io)
    \/ \E searchOutcome \in SearchOutcomes, genOutcome \in GenerationOutcomes,
          io \in IoOutcomes : RunTest(searchOutcome, genOutcome, io)
    \/ \E io \in IoOutcomes : CommandClear(io)
    \/ CommandSources
    \/ CommandExit
    \/ \E path \in FilePaths, content \in ExternalContents : ChatDamageFile(path, content)

ChatSpec == ChatInit /\ [][ChatNext]_vars

\* ------------------------------------------------- the conversation loop
CmdHelp == <<"/", "h", "e", "l", "p">>
CmdHistory == <<"/", "h", "i", "s", "t", "o", "r", "y">>
CmdClear == <<"/", "c", "l", "e", "a", "r">>
CmdSources == <<"/", "s", "o", "u", "r", "c", "e", "s">>
CmdExit == <<"/", "e", "x", "i", "t">>

\* End of input, or an interrupt, at the prompt
EndOfInput == <<"EOF">>

\* What the user may type at the prompt: nothing, the commands, a command in
\* capitals with a space after it, "/EXIT", "/exit ", something that is no
\* command; a question (the search and the generator act on questions only)
TypedCommands ==
    { <<>>, CmdHelp, CmdHistory, CmdClear, CmdSources, CmdExit,
      <<"/", "H", "E", "L", "P", " ">>, <<"/", "E", "X", "I", "T">>,
      <<"/", "e", "x", "i", "t", " ">>, <<"/", "d", "i", "e", "t">>, EndOfInput }

TypedQuestions == {QueryHeadache, QueryChestPain}

\* helpers.get_user_input: the line typed; "/exit" on EOFError and on
\* KeyboardInterrupt
get_user_input(typed) == IF typed = EndOfInput THEN CmdExit ELSE typed

\* MedicalChatbot._process_command: whether the command was processed, the
\* storage and show_sources afterwards, and the exception that leaves it
_process_command(command, uid, show, fs, now, io) ==
    LET cmd == strip(lower(command))
        done == [processed |-> TRUE, raised |-> FALSE, files |-> fs, show_sources |-> show]
    IN IF cmd = CmdHelp THEN done
       ELSE IF cmd = CmdHistory
       THEN [done EXCEPT !.raised = get_conversation_history(fs, uid, now).raised]
       ELSE IF cmd = CmdClear
       THEN LET w == clear_user_memory(fs, uid, now, io)
            IN [done EXCEPT !.raised = w.res.raised, !.files = w.files]
       ELSE IF cmd = CmdSources THEN [done EXCEPT !.show_sources = ~show]
       ELSE [done EXCEPT !.processed = FALSE]

\* MedicalChatbot.run: one pass of the while loop. An exception that leaves
\* _process_command is not caught by the loop (it catches KeyboardInterrupt
\* only) and ends the program.
ReadLine(typed, searchOutcome, genOutcome, io) ==
    /\ pc = "loop"
    /\ clock < MaxOps
    /\ \E line \in {get_user_input(typed)} :
          IF line = <<>>
          THEN /\ line_read' = [typed |-> typed, line |-> line, at |-> clock, io |-> io,
                                unknown |-> FALSE]
               /\ UNCHANGED <<files, appended, show_sources, pc, turn>>
          ELSE IF Head(line) = "/"
          THEN IF line = CmdExit
               THEN /\ line_read' = [typed |-> typed, line |-> line, at |-> clock,
                                     io |-> io, unknown |-> FALSE]
                    /\ pc' = "done"
                    /\ UNCHANGED <<files, appended, show_sources, turn>>
               ELSE \E c \in {_process_command(line, user_id, show_sources, files,
                                                clock, io)} :
                       /\ line_read' = [typed |-> typed, line |-> line, at |-> clock,
                                        io |-> io,
                                        unknown |-> ~c.raised /\ ~c.processed]
                       /\ files' = c.files
                       /\ appended' =
                             [path \in FilePaths |->
                                 IF c.files[path] # files[path] THEN <<>>
                                 ELSE appended[path]]
                       /\ show_sources' = c.show_sources
                       /\ pc' = IF c.raised THEN "crashed" ELSE "loop"
                       /\ turn' = turn
          ELSE \E t \in {_handle_user_input(user_id, line, show_sources, files, clock,
                                            MAX_CONVERSATION_HISTORY, searchOutcome,
                                            genOutcome, io)} :
                  /\ line_read' = [typed |-> typed, line |-> line, at |-> clock,
                                   io |-> io, unknown |-> FALSE]
                  /\ files' = t.files
                  /\ turn' = TurnRecord(t, io)
                  /\ appended' = AppendedAfter(_get_user_file_path(user_id), t.stored,
                                               t.files,
                                               ConversationEntry(line, t.response,
                                                                 NoMetadata, clock))
                  /\ UNCHANGED <<show_sources, pc>>
    /\ clock' = clock + 1
    /\ UNCHANGED <<MAX_CONVERSATION_HISTORY, indexVars, procs, last, external, user_id>>

LoopNext ==
    \/ \E uid \in UserIds : Login(uid)
    \/ \E typed \in TypedCommands, io \in IoOutcomes :
          ReadLine(typed, "found", "answers", io)
    \/ \E typed \in TypedQuestions, searchOutcome \in SearchOutcomes,
          genOutcome \in GenerationOutcomes, io \in IoOutcomes :
          ReadLine(typed, searchOutcome, genOutcome, io)
    \/ \E path \in FilePaths, content \in ExternalContents : ChatDamageFile(path, content)

LoopSpec == ChatInit /\ [][LoopNext]_vars

\* ------------------------------------------------------ the Knowledge Index
\* The state before _initialize_components: no handle; VECTOR_DB_PATH holds
\* nothing, the rest of an interrupted save or the index of an earlier run.
IndexInit ==
    /\ MAX_CONVERSATION_HISTORY = MaxCap
    /\ files = [p \in FilePaths |-> Missing]
    /\ clock = 0
    /\ last = NoCall
    /\ appended = [p \in FilePaths |-> <<>>]
    /\ external = FALSE
    /\ user_id = None
    /\ show_sources = FALSE
    /\ pc = "init"
    /\ turn = NoTurn
    /\ persisted_index \in {NoIndex, PartialIndex, Index(IndexedDocs)}
    /\ vector_db = None
    /\ index_last = NoIndexCall
    /\ procs = [p \in Procs |-> Idle]
    /\ line_read = NoLine

\* MedicalChatbot._initialize_components: the handle is loaded or built; with
\* no handle the program exits, and an exception ends it
InitializeComponents(rebuild, loaded, outcome) ==
    /\ pc = "init"
    /\ clock < MaxOps
    /\ LET b == _load_or_build_vector_db(persisted_index, rebuild, loaded, outcome) IN
       /\ persisted_index' = b.index
       /\ index_last' = IndexCall("_load_or_build_vector_db", loaded, b.res, b.index)
       /\ vector_db' = IF b.res.raised THEN vector_db ELSE b.res.value
       /\ pc' = IF b.res.raised THEN "crashed"
                ELSE IF b.res.value = None THEN "exited"
                ELSE "start"
    /\ clock' = clock + 1
    /\ UNCHANGED <<MAX_CONVERSATION_HISTORY, procs, line_read, files, last, appended, external,
                   user_id, show_sources, turn>>

\* build_vector_db(documents), the caller keeping the handle returned
BuildVectorDb(documents, outcome) ==
    /\ clock < MaxOps
    /\ LET b == build_vector_db(persisted_index, documents, outcome) IN
       /\ persisted_index' = b.index
       /\ index_last' = IndexCall("build_vector_db", documents, b.res, b.index)
       /\ vector_db' = IF b.res.raised THEN vector_db ELSE b.res.value
    /\ clock' = clock + 1
    /\ UNCHANGED <<MAX_CONVERSATION_HISTORY, procs, line_read, files, last, appended, external, chatVars>>

\* load_vector_db(), the caller keeping the handle returned
LoadVectorDb(outcome) ==
    /\ clock < MaxOps
    /\ LET r == load_vector_db(persisted_index, outcome) IN
       /\ index_last' = IndexCall("load_vector_db", <<>>, r, persisted_index)
       /\ vector_db' = IF r.raised THEN vector_db ELSE r.value
    /\ clock' = clock + 1
    /\ UNCHANGED <<MAX_CONVERSATION_HISTORY, procs, line_read, files, last, appended, external, chatVars,
                   persisted_index>>

\* search_vector_db(vector_db, query, k) on the handle held
SearchVectorDb(query, outcome) ==
    /\ clock < MaxOps
    /\ index_last' = IndexCall("search_vector_db", <<>>,
                               Return(search_vector_db(vector_db, query, RETRIEVER_K,
                                                       outcome)),
                               persisted_index)
    /\ clock' = clock + 1
    /\ UNCHANGED <<MAX_CONVERSATION_HISTORY, procs, line_read, files, last, appended, external, chatVars,
                   persisted_index, vector_db>>

IndexNext ==
    \/ \E rebuild \in BOOLEAN, loaded \in DocumentCollections, outcome \in IndexOutcomes :
          InitializeComponents(rebuild, loaded, outcome)
    \/ \E documents \in DocumentCollections, outcome \in IndexOutcomes :
          BuildVectorDb(documents, outcome)
    \/ \E outcome \in IndexOutcomes : LoadVectorDb(outcome)
    \/ \E query \in Queries, outcome \in SearchOutcomes : SearchVectorDb(query, outcome)

IndexSpec == IndexInit /\ [][IndexNext]_vars

\* ================================================================ claims
\* The n most recent elements of s (all of s when it has fewer)
MostRecent(s, n) == SubSeq(s, Max(Len(s) - n, 0) + 1, Len(s))

\* The record of user uid as the store reads it back
HistoryOf(uid) == get_conversation_history(files, uid, clock)

IsMemoryFile(f) == f.tag = "json" /\ f.doc.type = "memory"

\* C1: starting from empty storage and with no change from outside, after any
\* sequence of save_conversation / update_user_preferences / clear_user_memory
\* the stored conversations of every user are at most
\* MAX_CONVERSATION_HISTORY long, for every configured maximum >= 0.
C1_CapInvariant ==
    ~external =>
        \A uid \in UserIds :
            /\ ~HistoryOf(uid).raised
            /\ Len(HistoryOf(uid).value) <= MAX_CONVERSATION_HISTORY

\* The cap of C1 for the configured maxima of at least 1
CapHoldsForPositiveMaximum ==
    (~external /\ MAX_CONVERSATION_HISTORY >= 1) =>
        \A uid \in UserIds :
            /\ ~HistoryOf(uid).raised
            /\ Len(HistoryOf(uid).value) <= MAX_CONVERSATION_HISTORY

\* C2: once more than MAX_CONVERSATION_HISTORY turns have been appended to a
\* user's record, get_conversation_history returns exactly the
\* MAX_CONVERSATION_HISTORY most recently appended turns, in the order of
\* appending.
C2_FifoEviction ==
    \A uid \in UserIds :
        LET turns == appended[_get_user_file_path(uid)] IN
        Len(turns) > MAX_CONVERSATION_HISTORY =>
            /\ ~HistoryOf(uid).raised
            /\ HistoryOf(uid).value = MostRecent(turns, MAX_CONVERSATION_HISTORY)

\* The eviction of C2 for the configured maxima of at least 1, and the history
\* is all the appended turns while they are no more than the maximum
FifoHoldsForPositiveMaximum ==
    MAX_CONVERSATION_HISTORY >= 1 =>
        \A uid \in UserIds :
            LET turns == appended[_get_user_file_path(uid)] IN
            Len(turns) > 0 =>
                /\ ~HistoryOf(uid).raised
                /\ HistoryOf(uid).value = MostRecent(turns, MAX_CONVERSATION_HISTORY)

\* C8: whatever the user's file holds, get_user_memory does not raise and
\* returns a well-formed UserMemory record (the persisted one or a fresh
\* default for that id), so that a save_conversation that follows, with a
\* working write, does not fail.
C8_LoadNeverFails ==
    last.op = "get_user_memory" =>
        /\ ~last.res.raised
        /\ last.res.value.type = "memory"
        /\ IsMemoryFile(last.found) => last.res.value = last.found.doc
        /\ ~IsMemoryFile(last.found)
              => last.res.value = _create_default_memory(last.user_id, last.now)
        /\ files[_get_user_file_path(last.user_id)] = last.found
              => ~save_conversation(files, last.user_id, QueryHeadache,
                                    GeneratedAnswer, NoMetadata, clock,
                                    MAX_CONVERSATION_HISTORY, "ok").res.raised

\* The part of C8 that the code keeps: a missing file, a file open() cannot
\* read and a file that is not JSON are read as the default memory
LoadFallsBackOnCaughtFailures ==
    (last.op = "get_user_memory"
        /\ last.found.tag \in {"missing", "unreadable", "badjson"}) =>
        /\ ~last.res.raised
        /\ last.res.value = _create_default_memory(last.user_id, last.now)

WriteOps == {"save_conversation", "update_user_preferences", "clear_user_memory"}

\* What cannot be read back as stored data
ReadFailures == {"unreadable", "undecodable", "badjson"}

\* C9: a storage write failure in save_conversation, update_user_preferences
\* or clear_user_memory reaches the caller as an error; a storage read failure
\* never does, the default memory is returned in its place.
C9_ReadWriteAsymmetry ==
    /\ (last.op \in WriteOps /\ last.io # "ok") => last.res.raised
    /\ (last.op = "get_user_memory" /\ last.found.tag \in ReadFailures) =>
          /\ ~last.res.raised
          /\ last.res.value = _create_default_memory(last.user_id, last.now)

\* The part of C9 about writes
WriteFailuresPropagate ==
    (last.op \in WriteOps /\ last.io # "ok") => last.res.raised

\* C10: a save_conversation that fails leaves the user's stored record complete:
\* the record from before the call or the new one, never a file that no longer
\* holds a record, so no stored turn is lost by a failed append.
C10_AtomicPersistence ==
    (last.op = "save_conversation" /\ last.res.raised /\ IsMemoryFile(last.found)) =>
        /\ IsMemoryFile(last.left)
        /\ \A i \in 1..Len(last.found.doc.conversations) :
              \E j \in 1..Len(last.left.doc.conversations) :
                 last.left.doc.conversations[j] = last.found.doc.conversations[i]

\* The part of C10 that the code keeps: a write that succeeds leaves a whole
\* record, and a write that fails in open() leaves the file as it was
WholeRecordOrUntouched ==
    last.op = "save_conversation" =>
        /\ ~last.res.raised => IsMemoryFile(last.left)
        /\ (last.res.raised /\ last.io = "open_fails") => last.left = last.found

\* The characters a file name may hold besides the extension
SafeChars == AlnumChars \cup {"-", "_"}

\* The characters of s that are in SafeChars, in their order in s
RECURSIVE OnlySafe(_)
OnlySafe(s) ==
    IF s = <<>> THEN <<>>
    ELSE (IF Head(s) \in SafeChars THEN <<Head(s)>> ELSE <<>>) \o OnlySafe(Tail(s))

\* The file name the claims expect for a raw user_id
StorageLocation(uid) == OnlySafe(uid) \o <<".json">>

\* C11: every call of the store for a raw user_id reads and writes one file and
\* no other, the file whose name is the alphanumeric, hyphen and underscore
\* characters of user_id in their order followed by the extension (so it holds
\* no path separator and no dot before the extension); load, history and
\* preferences read that same file, append, preferences update and clear write it.
C11_ConsistentSanitisation ==
    [][last' # last =>
          \E P \in {StorageLocation(last'.user_id)} :
             /\ P \in DOMAIN files
             /\ \A i \in 1..(Len(P) - 1) : P[i] \in SafeChars
             /\ \A p \in (DOMAIN files) \ {P} : files'[p] = files[p]
             /\ last'.found = files[P]
             /\ last'.left = files'[P]
             /\ (last'.op \in WriteOps /\ ~last'.res.raised) =>
                    /\ IsMemoryFile(files'[P])
                    /\ get_user_memory(files', last'.user_id, clock') = Return(files'[P].doc)
                    /\ get_conversation_history(files', last'.user_id, clock')
                          = Return(files'[P].doc.conversations)
                    /\ get_user_preferences(files', last'.user_id, clock')
                          = Return(files'[P].doc.preferences)
             /\ (last'.op = "get_user_memory" /\ IsMemoryFile(files[P])) =>
                    last'.res = Return(files[P].doc)
    ]_vars

C11_Witness ==
    /\ last.user_id = <<".", ".", "/", "a">>
    /\ last.op = "save_conversation"
    /\ ~last.res.raised
    /\ IsMemoryFile(files[<<"a", ".json">>])
    /\ files[<<"a", ".json">>].doc.user_id = <<"a">>

\* C12: whatever store operations came before, a save_conversation(user_id, m, r)
\* that returns is followed by a get_conversation_history(user_id) that returns
\* a non-empty sequence whose last element has user_message m and bot_response r.
C12_AppendThenRead ==
    [][(last' # last /\ last'.op = "save_conversation" /\ ~last'.res.raised) =>
          \A ex \in Exchanges, metadata \in Metadatas :
             SaveConversation(last'.user_id, ex, metadata, last'.io) =>
                \E h \in {get_conversation_history(files', last'.user_id, clock')} :
                   /\ ~h.raised
                   /\ Len(h.value) > 0
                   /\ h.value[Len(h.value)].user_message = ex.user_message
                   /\ h.value[Len(h.value)].bot_response = ex.bot_response
    ]_vars

\* A save that returned on a record that was full, so that the trim has acted
C12_Witness ==
    /\ last.op = "save_conversation"
    /\ ~last.res.raised
    /\ MAX_CONVERSATION_HISTORY = 1
    /\ IsMemoryFile(last.found)
    /\ Len(last.found.doc.conversations) = 1
    /\ Len(last.left.doc.conversations) = 1
    /\ last.left.doc.conversations # last.found.doc.conversations

\* C13: after a clear_user_memory(user_id) that returns, whatever the file held
\* before, the user's file exists and holds a record with no conversations and
\* the default preferences, and that is what get_conversation_history and
\* get_user_preferences return.
C13_ClearResets ==
    (last.op = "clear_user_memory" /\ ~last.res.raised) =>
        /\ last.left.tag = "json"
        /\ IsMemoryFile(last.left)
        /\ last.left.doc.user_id = last.user_id
        /\ last.left.doc.conversations = <<>>
        /\ last.left.doc.preferences = DefaultPreferences(last.user_id)
        /\ files[_get_user_file_path(last.user_id)] = last.left =>
              /\ HistoryOf(last.user_id) = Return(<<>>)
              /\ get_user_preferences(files, last.user_id, clock)
                    = Return(DefaultPreferences(last.user_id))

\* A clear of a record that held a turn
C13_Witness ==
    /\ last.op = "clear_user_memory"
    /\ ~last.res.raised
    /\ IsMemoryFile(last.found)
    /\ Len(last.found.doc.conversations) > 0
    /\ HistoryOf(last.user_id) = Return(<<>>)

\* m1 and m2 have the same keys and, created_at aside, the same values
SameButCreation(m1, m2) ==
    /\ DOMAIN m1 = DOMAIN m2
    /\ [m1 EXCEPT !.created_at = 0] = [m2 EXCEPT !.created_at = 0]

\* C14: the memory get_user_memory returns for an id whose file is missing and
\* the memory it returns after a clear_user_memory of that id have the same
\* keys, the same user_id, no conversations and the same default preferences.
C14_LazyCreationEqualsClear ==
    /\ (last.op = "get_user_memory" /\ last.found = Missing) =>
          \E w \in {clear_user_memory(files, last.user_id, clock, "ok")} :
             \E m \in {get_user_memory(w.files, last.user_id, clock + 1)} :
                /\ ~last.res.raised
                /\ ~m.raised
                /\ SameButCreation(last.res.value, m.value)
                /\ m.value.conversations = <<>>
                /\ m.value.preferences = DefaultPreferences(last.user_id)
    /\ (last.op = "clear_user_memory" /\ ~last.res.raised
           /\ files[_get_user_file_path(last.user_id)] = last.left) =>
          \E m \in {get_user_memory(files, last.user_id, clock)} :
             \E lazy \in {get_user_memory(
                              [files EXCEPT ![_get_user_file_path(last.user_id)] = Missing],
                              last.user_id, clock)} :
                /\ ~m.raised
                /\ ~lazy.raised
                /\ SameButCreation(m.value, lazy.value)

\* A clear of a record whose preferences had been changed
C14_Witness ==
    /\ last.op = "clear_user_memory"
    /\ ~last.res.raised
    /\ IsMemoryFile(last.found)
    /\ last.found.doc.preferences # DefaultPreferences(last.found.doc.user_id)
    /\ files[_get_user_file_path(last.user_id)] = last.left

\* C15: after an update_user_preferences(user_id, patch) that returns,
\* get_user_preferences(user_id) returns a mapping in which every key of patch
\* has the patch's value and every key that was there before and is not in
\* patch has the value it had, and get_conversation_history(user_id) returns
\* what it returned before the update.
C15_PreferenceMerge ==
    [][(last' # last /\ last'.op = "update_user_preferences" /\ ~last'.res.raised) =>
          \A patch \in PreferencePatches :
             UpdateUserPreferences(last'.user_id, patch, last'.io) =>
                \E old \in {get_user_preferences(files, last'.user_id, clock)} :
                   \E new \in {get_user_preferences(files', last'.user_id, clock')} :
                      /\ ~old.raised
                      /\ ~new.raised
                      /\ \A k \in DOMAIN patch :
                            k \in DOMAIN new.value /\ new.value[k] = patch[k]
                      /\ \A k \in (DOMAIN old.value) \ (DOMAIN patch) :
                            k \in DOMAIN new.value /\ new.value[k] = old.value[k]
                      /\ get_conversation_history(files', last'.user_id, clock')
                            = get_conversation_history(files, last'.user_id, clock)
    ]_vars

\* An update of a record that holds a turn and an earlier patch of other keys
C15_Witness ==
    /\ last.op = "update_user_preferences"
    /\ ~last.res.raised
    /\ IsMemoryFile(last.found)
    /\ IsMemoryFile(last.left)
    /\ last.found.doc.preferences.allergies = <<"penicillin">>
    /\ last.left.doc.preferences.allergies = <<"penicillin">>
    /\ "language" \notin DOMAIN last.found.doc.preferences
    /\ "language" \in DOMAIN last.left.doc.preferences
    /\ last.left.doc.preferences.language = "es"
    /\ Len(last.left.doc.conversations) > 0

\* ------------------------------------------------- claims on the chatbot
\* segment is one of the segments of text
Contains(text, segment) == \E i \in 1..Len(text) : text[i] = segment

\* Some configured phrase occurs in query, letter case aside
ContainsSeverityPhrase(query) ==
    \E n \in 1..Len(SEVERITY_KEYWORDS) :
        \E i \in 0..(Len(query) - Len(SEVERITY_KEYWORDS[n])) :
            \A j \in 1..Len(SEVERITY_KEYWORDS[n]) :
                LowerChar(query[i + j]) = SEVERITY_KEYWORDS[n][j]

\* A turn has been handled
Handled == turn.input # None

\* A turn has been handled for a user who is logged in
HandledForUser == turn.input # None /\ user_id # None

\* C3: for a query that contains a configured severity phrase, invoke returns
\* the fixed warning, which carries the disclaimer, with no sources and
\* severity_detected true, and neither the index search nor the generator is
\* called in that turn.
C3_SeverityShortCircuit ==
    (Handled /\ ContainsSeverityPhrase(turn.input)) =>
        /\ turn.result = [answer |-> _get_severity_warning, sources |-> <<>>,
                          severity_detected |-> TRUE]
        /\ Contains(_get_severity_warning, MEDICAL_DISCLAIMER)
        /\ \A i \in 1..Len(turn.trace) : turn.trace[i] \notin {"retrieve", "generate"}

C3_Witness ==
    /\ turn.input = QueryStroke
    /\ turn.trace = <<"severity", "persist", "respond">>
    /\ turn.response = _get_severity_warning

\* The turn's last stored turn is the turn itself
LastStoredIsThisTurn ==
    /\ ~turn.history.raised
    /\ Len(turn.history.value) > 0
    /\ turn.history.value[Len(turn.history.value)].user_message = turn.input
    /\ turn.history.value[Len(turn.history.value)].bot_response = turn.response

\* The turn added one turn and nothing else: what was stored before, or its
\* most recent part, is followed by the new turn
OneTurnAppended ==
    /\ LastStoredIsThisTurn
    /\ ~turn.before.raised
    /\ LET kept == Len(turn.history.value) - 1 IN
       /\ kept <= Len(turn.before.value)
       /\ SubSeq(turn.history.value, 1, kept) = MostRecent(turn.before.value, kept)

\* C4: every non-command input handled for a user appends exactly one turn to
\* the user's record, with the raw input and the final answer text, on the
\* severity path, the generation path and the generation-failure path alike
\* (the file system carrying out the write).
C4_EveryTurnPersisted ==
    (HandledForUser /\ turn.io = "ok") => (turn.stored /\ OneTurnAppended)

\* The persistence of C4 while the user's file is missing or holds a record
EveryTurnPersistedOverARecord ==
    (HandledForUser /\ turn.io = "ok" /\ ~external) =>
        (turn.stored /\ OneTurnAppended)

\* C5: when the generator raises on a query that is not severe, invoke does not
\* raise: it returns the apology, a non-empty text that carries the disclaimer,
\* with severity_detected false.
C5_GenerationFailureRecovered ==
    (Handled /\ "generate" \in turn.failed) =>
        /\ ~turn.invoke_raised
        /\ Len(turn.result.answer) > 0
        /\ Contains(turn.result.answer, MEDICAL_DISCLAIMER)
        /\ turn.result.severity_detected = FALSE

C5_Witness ==
    /\ turn.input = QueryHeadache
    /\ "generate" \in turn.failed
    /\ turn.stored
    /\ turn.response = turn.result.answer

\* C6: under every combination of search failure, generation failure and write
\* failure _handle_user_input returns a non-empty text and does not raise, and a
\* returned text that is not the generated answer carries the disclaimer.
C6_ResponseAlwaysProduced ==
    Handled =>
        /\ ~turn.raised
        /\ turn.response # None
        /\ Len(turn.response) > 0
        /\ turn.response # GeneratedAnswer
              => Contains(turn.response, MEDICAL_DISCLAIMER)

C6_Witness ==
    /\ turn.failed = {"retrieve", "generate", "persist"}
    /\ turn.response = HandlerApology
    /\ ~turn.raised

\* C7, as claimed: after every turn handled for a user, the write failing or
\* not, the last stored turn of the user has the input as user_message and the
\* returned text as bot_response.
C7_MemoryMatchesResponse ==
    HandledForUser => LastStoredIsThisTurn

\* C7, amended: after a turn whose save_conversation returned, generation
\* failing or not, the last stored turn of the user has the input and the
\* returned text; after a turn whose save or orchestrator raised, the returned
\* text is the handler's apology and the stored history does not hold it.
C7_MemoryMatchesWhenSaved ==
    HandledForUser =>
        IF turn.stored
        THEN LastStoredIsThisTurn
        ELSE /\ turn.response = HandlerApology
             /\ turn.history.raised
                   \/ \A i \in 1..Len(turn.history.value) :
                         turn.history.value[i].bot_response # HandlerApology

C7_Witness ==
    /\ HandledForUser
    /\ turn.stored
    /\ "generate" \in turn.failed
    /\ Len(turn.history.value) >= 2
    /\ LastStoredIsThisTurn

\* The turn took the severity fast path: the search was never reached
SeverityPath == ~Contains(turn.trace, "retrieve")

\* C16: _check_severity(query) is true exactly when some phrase of
\* SEVERITY_KEYWORDS occurs in the query, letter case aside; its result for a
\* query is the same in every state, and in every turn the path taken is the
\* one the classifier's definition gives for the input, the store being at
\* invoke's return as it was before the turn.
C16_SeverityClassifier ==
    /\ \A q \in Queries : _check_severity(q) <=> ContainsSeverityPhrase(q)
    /\ Handled =>
          /\ SeverityPath <=> ContainsSeverityPhrase(turn.input)
          /\ turn.at_return = turn.before

\* A query with "headache" but not "severe headache" went on to generation
C16_Witness ==
    /\ turn.input = QueryHeadache
    /\ ~turn.invoke_raised
    /\ turn.result.severity_detected = FALSE
    /\ Contains(turn.trace, "generate")
    /\ turn.failed = {}

\* The steps of a turn in the order of the specification
StepOrder ==
    <<"severity", "retrieve", "recall", "compose", "generate", "persist", "respond">>

Position(step) == CHOOSE i \in 1..Len(StepOrder) : StepOrder[i] = step

\* C17: the steps of a turn are steps of StepOrder taken in that order, none
\* twice; the first is the severity check, so it is over before any search or
\* generation; a turn that generated also persisted, after the generation; and
\* the last step is the return of the response.
C17_StrictStepOrder ==
    Handled =>
        /\ Len(turn.trace) >= 2
        /\ \A i \in 1..Len(turn.trace) : \E k \in 1..Len(StepOrder) : StepOrder[k] = turn.trace[i]
        /\ \A i, j \in 1..Len(turn.trace) :
              i < j => Position(turn.trace[i]) < Position(turn.trace[j])
        /\ turn.trace[1] = "severity"
        /\ turn.trace[Len(turn.trace)] = "respond"
        /\ Contains(turn.trace, "generate") => Contains(turn.trace, "persist")

\* A turn that went through every step
C17_Witness ==
    /\ Handled
    /\ turn.trace = StepOrder
    /\ turn.stored

\* C18, as claimed: when invoke takes the severity fast path the turn (query,
\* warning) is the last stored turn of the user by the time invoke returns.
C18_OrchestratorPersistsSeverityTurn ==
    (HandledForUser /\ SeverityPath) =>
        /\ ~turn.at_return.raised
        /\ Len(turn.at_return.value) > 0
        /\ turn.at_return.value[Len(turn.at_return.value)].user_message = turn.input
        /\ turn.at_return.value[Len(turn.at_return.value)].bot_response
              = _get_severity_warning

\* C18, amended: on the severity fast path invoke leaves the store as it was;
\* the turn (query, warning) is appended after invoke has returned, by
\* _handle_user_input, and is the last stored turn whenever that save returned.
C18_HandlerPersistsSeverityTurn ==
    (HandledForUser /\ SeverityPath) =>
        /\ ~turn.invoke_raised
        /\ turn.result.severity_detected
        /\ turn.at_return = turn.before
        /\ turn.trace[Len(turn.trace) - 1] = "persist"
        /\ turn.stored =>
              /\ turn.response = _get_severity_warning
              /\ LastStoredIsThisTurn

\* A severity turn stored after an earlier turn
C18_Witness ==
    /\ HandledForUser
    /\ turn.input = QueryChestPain
    /\ turn.stored
    /\ ~turn.at_return.raised
    /\ Len(turn.at_return.value) = 1
    /\ ~turn.history.raised
    /\ Len(turn.history.value) = 2
    /\ turn.history.value[2].bot_response = _get_severity_warning

\* search_vector_db gives the empty list for a handle that is None and for a
\* search that raises
SearchNeverRaises ==
    \A q \in Queries \cup {TestQuery}, outcome \in SearchOutcomes :
        /\ search_vector_db(None, q, RETRIEVER_K, outcome) = <<>>
        /\ search_vector_db(VectorDb, q, RETRIEVER_K, "raises") = <<>>

\* C19: search_vector_db never raises and gives the empty list when the handle
\* is None or the search fails; a turn whose search failed goes on with no
\* sources and the generator is still called.
C19_RetrievalDegrades ==
    /\ SearchNeverRaises
    /\ (Handled /\ "retrieve" \in turn.failed) =>
          /\ Contains(turn.trace, "generate")
          /\ ~turn.invoke_raised
          /\ turn.result.sources = <<>>

\* The degradation of C19 for a user who is logged in and whose file is missing
\* or holds a record
RetrievalDegradesOverARecord ==
    /\ SearchNeverRaises
    /\ (HandledForUser /\ ~external /\ "retrieve" \in turn.failed) =>
          /\ Contains(turn.trace, "generate")
          /\ ~turn.invoke_raised
          /\ turn.result.sources = <<>>

RECURSIVE RenderTurns(_)
RenderTurns(turns) ==
    IF turns = <<>> THEN <<>>
    ELSE LET t == Head(turns)
             response == IF Len(t.bot_response) > 200
                         THEN SubSeq(t.bot_response, 1, 200) \o <<"...">>
                         ELSE t.bot_response
             text == <<"User: ">> \o t.user_message \o <<"\n">> \o
                     <<"Assistant: ">> \o response
         IN IF Len(turns) = 1 THEN text ELSE text \o <<"\n">> \o RenderTurns(Tail(turns))

\* The history the last call of the store found in the user's file
FoundHistory ==
    IF IsMemoryFile(last.found) THEN last.found.doc.conversations ELSE <<>>

\* C21: for every user and every max_turns >= 0, get_formatted_history renders
\* exactly the last min(max_turns, len(history)) turns in chronological order,
\* each as a "User:" line and an "Assistant:" line with the response cut to
\* 200 characters and an ellipsis when it is longer; the empty text when the
\* user has no history.
C21_FormattedHistory ==
    last.op = "get_formatted_history" =>
        /\ ~last.res.raised
        /\ last.res.value =
              RenderTurns(MostRecent(FoundHistory,
                                     Min(last.max_turns, Len(FoundHistory))))

\* C21 holds for every max_turns >= 1
FormattedHistoryForPositiveMaxTurns ==
    (last.op = "get_formatted_history" /\ last.max_turns >= 1) => C21_FormattedHistory

\* With max_turns = 0 every stored turn is rendered
FormattedHistoryForZeroRendersAll ==
    (last.op = "get_formatted_history" /\ last.max_turns = 0) =>
        /\ ~last.res.raised
        /\ last.res.value = RenderTurns(FoundHistory)

\* A history of two turns, one with a response of 201 characters, has been
\* formatted with max_turns = 1 and with max_turns = 3
FormattedHistoryCasesHappen ==
    /\ last.op = "get_formatted_history"
    /\ Len(FoundHistory) = 2
    /\ last.max_turns = 1
    /\ Len(FoundHistory[2].bot_response) = 201

\* ------------------------------------------------------ the recalled history
\* The turn went as far as the prompt
Composed == Handled /\ Contains(turn.trace, "compose")

\* C22: the conversation_history the orchestrator places in the prompt is the
\* store's get_formatted_history(user_id, max_turns=10) of the same stored
\* history.
C22_RecallIsFormattedHistory ==
    Composed =>
        /\ ~turn.formatted_history.raised
        /\ turn.conversation_history = turn.formatted_history.value

\* The text of the turns with "..." after every response, cut or not
RECURSIVE RenderTurnsEllipsis(_)
RenderTurnsEllipsis(turns) ==
    IF turns = <<>> THEN <<>>
    ELSE LET t == Head(turns)
             text == <<"User: ">> \o t.user_message \o <<"\n">> \o <<"Assistant: ">> \o
                     SubSeq(t.bot_response, 1, Min(200, Len(t.bot_response))) \o <<"...">>
         IN IF Len(turns) = 1 THEN text
            ELSE text \o <<"\n">> \o RenderTurnsEllipsis(Tail(turns))

\* What the prompt holds: the same turns in the same layout, with "..." after
\* every response
RecallRendersWithEllipsis ==
    Composed =>
        /\ ~turn.before.raised
        /\ turn.conversation_history = RenderTurnsEllipsis(MostRecent(turn.before.value, 10))

\* The two texts are the same when the user has no stored turn
RecallIsFormattedHistoryWhenEmpty ==
    (Composed /\ ~turn.before.raised /\ turn.before.value = <<>>) =>
        C22_RecallIsFormattedHistory

\* ------------------------------------------------------------ the sources
\* invoke has returned a result to the last call of run
Invoked == turn.input # None /\ ~turn.invoke_raised

\* C23: a response carries a source list only if the caller asked with
\* return_sources = true; with return_sources = false the response of
\* invoke / run holds no source citations.
C23_SourcesOnlyOnRequest ==
    (Invoked /\ ~turn.return_sources) =>
        /\ turn.result.sources = <<>>
        /\ ~Contains(turn.run_response.value, "**Sources:**")

\* run cites the sources only on request
RunCitesOnlyOnRequest ==
    Invoked =>
        /\ ~turn.run_response.raised
        /\ ~turn.return_sources => turn.run_response.value = turn.result.answer
        /\ Contains(turn.run_response.value, "**Sources:**") =>
              turn.return_sources /\ turn.result.sources # <<>>

\* The source list of invoke: empty on the severity path and after a failed
\* search, otherwise one entry per retrieved document, at most RETRIEVER_K of
\* them, each the first 200 characters of the document and its metadata
SourcesOnePerRetrievedDocument ==
    Invoked =>
        LET sources == turn.result.sources IN
        /\ Len(sources) <= RETRIEVER_K
        /\ (turn.result.severity_detected \/ "retrieve" \in turn.failed) => sources = <<>>
        /\ \E matching \in {IndexedDocs, ManyDocs, <<>>} :
              /\ Len(sources) = Min(RETRIEVER_K, Len(matching))
              /\ \A i \in 1..Len(sources) :
                    /\ Len(sources[i].content) <= 200
                    /\ sources[i].content =
                          SubSeq(matching[i].page_content, 1,
                                 Min(200, Len(matching[i].page_content)))
                    /\ sources[i].metadata = matching[i].metadata

\* invoke has returned five sources, one of them cut to 200 characters, to a
\* caller that asked for them
SourcesReturnedOnRequest ==
    /\ Invoked
    /\ turn.return_sources
    /\ Len(turn.result.sources) = RETRIEVER_K
    /\ \E i \in 1..Len(turn.result.sources) : Len(turn.result.sources[i].content) = 200
    /\ Contains(turn.run_response.value, "**Sources:**")

\* --------------------------------------------------- concurrent appends
\* Both callers have written the record of the same file
BothWritten(p, q) ==
    /\ p # q
    /\ procs[p].pc = "done" /\ procs[q].pc = "done"
    /\ procs[p].written /\ procs[q].written
    /\ _get_user_file_path(procs[p].user_id) = _get_user_file_path(procs[q].user_id)

\* The stored history of the file caller p wrote
RaceHistory(p) == files[_get_user_file_path(procs[p].user_id)].doc.conversations

\* q entered save_conversation after p had returned
Serialised(p, q) == procs[p].written_at < procs[q].loaded_at

\* q loaded the record before p wrote it and wrote after p
Interleaved(p, q) ==
    /\ procs[q].loaded_at < procs[p].written_at
    /\ procs[p].written_at < procs[q].written_at

\* C24: the store takes no lock. When two save_conversation calls for the
\* same user interleave their load and their write, the stored history lacks
\* the turn of the call that wrote first; when the calls are serialised both
\* turns are stored, in the order of the calls (subject to the cap).
C24_LostUpdateOnlyWhenInterleaved ==
    \A p, q \in Procs :
        (BothWritten(p, q) /\ MAX_CONVERSATION_HISTORY >= 1) =>
            /\ Serialised(p, q) =>
                  RaceHistory(p) = MostRecent(<<procs[p].entry, procs[q].entry>>,
                                              MAX_CONVERSATION_HISTORY)
            /\ Interleaved(p, q) => RaceHistory(p) = <<procs[q].entry>>

\* The two calls have interleaved under a cap that has room for both turns,
\* and the stored history lacks the turn of the first writer
C24_Witness ==
    \E p, q \in Procs :
        /\ BothWritten(p, q)
        /\ MAX_CONVERSATION_HISTORY >= 2
        /\ Interleaved(p, q)
        /\ \A i \in 1..Len(RaceHistory(p)) : RaceHistory(p)[i] # procs[p].entry

\* The two calls were serialised and both turns are stored
SerialisedBothStored ==
    \E p, q \in Procs :
        /\ BothWritten(p, q)
        /\ MAX_CONVERSATION_HISTORY >= 2
        /\ Serialised(p, q)
        /\ RaceHistory(p) = <<procs[p].entry, procs[q].entry>>

\* ------------------------------------------------------ the creation time
\* The last call found a record in the user's file and left one
RecordFoundAndLeft == IsMemoryFile(last.found) /\ IsMemoryFile(last.left)

\* C25: the created_at of a user's record, once the record has been stored, is
\* the same in every later load, across any sequence of append, preferences
\* update and clear.
C25_CreatedAtImmutable ==
    (last.op \in WriteOps \cup {"get_user_memory"} /\ RecordFoundAndLeft) =>
        /\ last.left.doc.created_at = last.found.doc.created_at
        /\ (last.op = "get_user_memory" /\ ~last.res.raised) =>
              last.res.value.created_at = last.found.doc.created_at

\* Append, preferences update and load keep the created_at of a stored record
CreatedAtKeptByAppendAndUpdate ==
    (last.op \in {"save_conversation", "update_user_preferences", "get_user_memory"}
     /\ RecordFoundAndLeft) => C25_CreatedAtImmutable

\* A clear that returns stamps the record with the time of the clear
CreatedAtResetByClear ==
    (last.op = "clear_user_memory" /\ ~last.res.raised) =>
        /\ IsMemoryFile(last.left)
        /\ last.left.doc.created_at = last.now

\* ------------------------------------------------------------ the user list
\* user_id holds only characters that the file name keeps
IsSafeId(uid) == \A i \in 1..Len(uid) : uid[i] \in SafeChars

\* C26: list_users returns exactly the user_ids that have a record in the
\* store; after a save_conversation(user_id) or a clear_user_memory(user_id)
\* that returned, the list holds that user_id.
C26_ListUsersHoldsUser ==
    (last.op \in {"save_conversation", "clear_user_memory"} /\ ~last.res.raised) =>
        last.user_id \in list_users(files)

\* The list holds the file name of the user, which is the user_id when the
\* user_id has no character that the file name drops
ListUsersHoldsFileName ==
    (last.op \in {"save_conversation", "clear_user_memory"} /\ ~last.res.raised) =>
        /\ OnlySafe(last.user_id) \in list_users(files)
        /\ IsSafeId(last.user_id) => last.user_id \in list_users(files)

\* The list is the set of the names of the files that exist
ListUsersIsTheFilesThatExist ==
    list_users(files) = { OnlySafe(uid) : uid \in { u \in UserIds :
                              files[StorageLocation(u)].tag # "missing" } }

\* ------------------------------------------------------- isolation of users
\* What a load gives for user uid on storage fs
LoadedFor(fs, uid) == get_user_memory(fs, uid, 0)

\* C28: for any two distinct user_id strings A and B, a save_conversation, an
\* update_user_preferences or a clear_user_memory on A leaves what is stored
\* and read back for B unchanged, and a record loaded for B carries user_id B.
C28_UserIsolation ==
    [][(last' # last /\ last'.op \in WriteOps) =>
          \A B \in UserIds \ {last'.user_id} :
              /\ files'[StorageLocation(B)] = files[StorageLocation(B)]
              /\ IsMemoryFile(files'[StorageLocation(B)]) =>
                    LoadedFor(files', B).value.user_id = B]_vars

\* C28 holds for two users whose file names differ, over records the store
\* wrote for them
IsolationOfDistinctFileNames ==
    [][(last' # last /\ last'.op \in WriteOps) =>
          \A B \in { u \in UserIds : StorageLocation(u) # StorageLocation(last'.user_id) } :
              /\ files'[StorageLocation(B)] = files[StorageLocation(B)]
              /\ LoadedFor(files', B) = LoadedFor(files, B)]_vars

\* ---------------------------------------------------------- the test mode
\* main() with --test has handled its query: nobody logged in
TestRun == Handled /\ user_id = None /\ pc = "done"

\* C29: in --test mode the built-in non-severe query goes through retrieval,
\* recall and generation, and the response is the generated text, not the
\* error apology.
C29_TestModeAnswers ==
    TestRun =>
        /\ Contains(turn.trace, "retrieve")
        /\ Contains(turn.trace, "recall")
        /\ Contains(turn.trace, "generate")
        /\ turn.response # HandlerApology
        /\ "generate" \notin turn.failed => turn.response = GeneratedAnswer

\* What --test does: the recall raises TypeError on the user_id None, the
\* generator is not reached, nothing is stored and the handler's apology is
\* the response
TestModeApologises ==
    TestRun =>
        /\ turn.trace = <<"severity", "retrieve", "recall", "respond">>
        /\ "recall" \in turn.failed
        /\ turn.response = HandlerApology
        /\ ~turn.stored

\* ------------------------------------------------- interactive commands
\* The loop has read a line in this step
LineRead == line_read' # line_read

StartsWithSlash(line) == line # <<>> /\ Head(line) = "/"

\* The line is neither passed to the orchestrator nor appended as a turn: no
\* turn is handled, and no file gains a turn
NotATurn ==
    /\ turn' = turn
    /\ \A path \in FilePaths :
          \/ files'[path] = files[path]
          \/ /\ IsMemoryFile(files'[path])
             /\ files'[path].doc.conversations = <<>>

\* C27: in the conversation loop every line that starts with "/" is handled
\* as a command, never passed to the orchestrator nor appended as a turn;
\* "/help", "/history", "/clear" and "/sources" are recognised and leave the
\* loop running; "/exit", also produced on end of input or interrupt, ends the
\* loop; an empty line is ignored.
C27_InteractiveCommands ==
    [][LineRead =>
          /\ StartsWithSlash(line_read'.line) => NotATurn
          /\ line_read'.line \in {CmdHelp, CmdHistory, CmdClear, CmdSources} =>
                ~line_read'.unknown /\ pc' = "loop"
          /\ line_read'.line = CmdExit => pc' = "done"
          /\ line_read'.typed = EndOfInput => line_read'.line = CmdExit
          /\ line_read'.line = <<>> =>
                UNCHANGED <<files, turn, show_sources, pc, user_id>>]_vars

\* "/history" can read the user's record, and the write of "/clear" succeeds
CommandCanRun ==
    /\ line_read'.line = CmdHistory =>
          ~get_conversation_history(files, user_id, clock).raised
    /\ line_read'.line = CmdClear => line_read'.io = "ok"

\* C27 holds for every line but a "/history" over a record that cannot be
\* read and a "/clear" whose write fails
CommandsThatCanRun ==
    [][(LineRead /\ CommandCanRun) =>
          /\ StartsWithSlash(line_read'.line) => NotATurn
          /\ line_read'.line \in {CmdHelp, CmdHistory, CmdClear, CmdSources} =>
                ~line_read'.unknown /\ pc' = "loop"
          /\ line_read'.line = CmdExit => pc' = "done"
          /\ line_read'.typed = EndOfInput => line_read'.line = CmdExit
          /\ line_read'.line = <<>> =>
                UNCHANGED <<files, turn, show_sources, pc, user_id>>]_vars

\* A "/history" or a "/clear" that raises ends the program
FailedCommandEndsTheProgram ==
    [][(LineRead /\ ~CommandCanRun) => pc' = "crashed"]_vars

\* Only a line that does not start with "/" and is not empty is handled as a
\* turn
OnlyQuestionsAreTurns ==
    [][(LineRead /\ turn' # turn) =>
          /\ line_read'.line # <<>>
          /\ ~StartsWithSlash(line_read'.line)
          /\ turn'.input = line_read'.line]_vars

\* A command has been run after a turn was stored, and the loop goes on
CommandRunAfterATurn ==
    /\ pc = "loop"
    /\ line_read.line \in {CmdHistory, CmdClear}
    /\ Handled /\ turn.stored

==========================================================================
